---- MODULE Spec2Model ----
(***************************************************************************)
(* Model of the Egon dataflow library: connectors (Input/Output sharing a  *)
(* multiprocessing queue), nodes (setup/action/teardown lifecycle and the  *)
(* finished flags), the expecting-more-input check, and the pipeline that  *)
(* runs one worker process per node replica.                               *)
(*                                                                         *)
(* Two packages are modelled side by side, selected by `impl`:             *)
(*   "simple_pipe"  src/simple_pipe/{connectors,nodes,pipeline,decorators} *)
(*   "egon"         src/egon/{connectors,nodes,decorators}                 *)
(*                                                                         *)
(* The specifications share the variables:                                 *)
(*   ConnSpec   one process calling connect / disconnect / put / get on    *)
(*              four unconnected connectors                                *)
(*   CheckSpec  one process calling put / get / execute / _run_pool / the  *)
(*              expecting-more-input check on a connected graph            *)
(*   ValSpec    one process wiring and validating nodes of every shape     *)
(*   Spec       the simple_pipe Pipeline running decorator-built nodes as  *)
(*              forked worker processes (FairSpec adds process fairness,   *)
(*              UnwiredSpec starts from a partly connected graph)          *)
(*   RunSpec    the same pipeline with the parent process calling          *)
(*              wait_for_exit or kill after run_async                      *)
(*                                                                         *)
(* A multiprocessing queue is modelled as a FIFO sequence shared by all    *)
(* processes; every plain Python attribute of a node is private to the     *)
(* process that holds the object (a forked worker gets a copy).            *)
(***************************************************************************)
EXTENDS Integers, Sequences, FiniteSets, TLC

VARIABLES
    impl,       \* "simple_pipe" or "egon": the package in use
    graph,      \* "api", "ST" (Source -> Target) or "SIT" (Source -> Inline -> Target)
    maxsize,    \* connector -> the maxsize it was constructed with (simple_pipe _maxsize)
    partner,    \* connector -> its partner connector, or None (_partner / _connected_partner)
    cqueue,     \* connector -> identity of the queue object it holds (_queue)
    qitems,     \* queue identity -> the items in that queue, oldest first
    qmax,       \* queue identity -> capacity of that queue (0 = unbounded)
    mem,        \* process -> node -> simple_pipe Node.finished in that process's memory
    egon,       \* node -> egon flags (_is_running, _current_process_finished, _node_finished)
    ret,        \* the last API call of the calling process and what it returned or raised
    nproc,      \* node -> num_processes
    started,    \* how many processes of Pipeline.processes run_async has started
    stage,      \* worker -> where execute is: new, setup, action, teardown, flag, done, crashed
    apc,        \* worker -> position inside action: enter, check, get, put
    sent,       \* worker -> how many items the source generator has yielded
    local,      \* worker -> the datum held between get and put (out_data), 0 if none
    calls,      \* worker -> the lifecycle methods execute has called, in order
    exc,        \* worker -> the exception that left execute, or None
    captured,   \* the values the Target function was called with, in order
    chk         \* the evaluation of the expecting-more-input check in progress

heapVars == <<partner, cqueue, qitems, qmax>>
flagVars == <<mem, egon>>
confVars == <<impl, graph, maxsize, nproc>>
runVars  == <<started, stage, apc, sent, local, calls, exc, captured>>
vars     == <<impl, graph, maxsize, partner, cqueue, qitems, qmax, mem, egon, ret,
              nproc, started, stage, apc, sent, local, calls, exc, captured, chk>>

None == "None"

(***************************************************************************)
(* Bounds of the model                                                     *)
(***************************************************************************)
MaxProcs == 2     \* num_processes of a node ranges over 1 .. MaxProcs
MaxQLen  == 2     \* CheckSpec stops putting once the queues hold MaxQLen items in all
MaxConnItems == 1 \* ConnSpec stops putting once the queues hold MaxConnItems items in all
MaxPipelineNodes == 2 \* ValSpec validates pipelines of at most MaxPipelineNodes nodes
QueueCap == 1     \* the positive maxsize tried for a bounded connector

Items == 1 .. 2

(***************************************************************************)
(* The graphs: nodes, their connector attributes and classes               *)
(***************************************************************************)
Nodes(g) ==
    CASE g = "api" -> {"A", "B", "T"}
      [] g = "ST"  -> {"src", "tgt"}
      [] g = "SIT" -> {"src", "inl", "tgt"}
      [] g = "val" -> {"S", "T", "N", "Sx", "Tx", "S0", "T0", "N0"}

\* The nodes in the order Pipeline.nodes() lists them (by attribute name)
NodeSeq(g) ==
    CASE g = "api" -> << >>
      [] g = "ST"  -> <<"src", "tgt">>
      [] g = "SIT" -> <<"inl", "src", "tgt">>
      [] g = "val" -> <<"N", "N0", "S", "S0", "Sx", "T", "T0", "Tx">>

\* The connector objects, in the order they are constructed
ConnSeq(g) ==
    CASE g = "api" -> <<"o1", "o2", "i1", "i2">>
      [] g = "ST"  -> <<"src.output", "tgt.input">>
      [] g = "SIT" -> <<"src.output", "inl.input", "inl.output", "tgt.input">>
      [] g = "val" -> <<"S.output", "N.input", "N.output", "T.input", "T.second_input",
                        "Sx.input", "Tx.output">>

Conns(g) == {ConnSeq(g)[i] : i \in 1 .. Len(ConnSeq(g))}

\* The class of each connector object.  LabelledInput is a user subclass of Input.
ClassOf(c) ==
    CASE c \in {"o1", "o2", "src.output", "inl.output",
                "S.output", "N.output", "Tx.output"} -> "Output"
      [] c \in {"i1", "inl.input", "tgt.input",
                "N.input", "T.input", "T.second_input", "Sx.input"} -> "Input"
      [] c = "i2"                                       -> "LabelledInput"

\* isinstance(c, connectors.Input) / isinstance(c, connectors.Output)
IsInput(c)  == ClassOf(c) \in {"Input", "LabelledInput"}
IsOutput(c) == ClassOf(c) = "Output"
SameDirection(a, b) == IsInput(a) = IsInput(b)

\* connection._node = self, assigned once in Node.__init__
OwnerOf(c) ==
    CASE c = "o1" -> "A"
      [] c = "o2" -> "B"
      [] c \in {"i1", "i2"} -> "T"
      [] c = "src.output" -> "src"
      [] c \in {"inl.input", "inl.output"} -> "inl"
      [] c = "tgt.input" -> "tgt"
      [] c = "S.output" -> "S"
      [] c \in {"N.input", "N.output"} -> "N"
      [] c \in {"T.input", "T.second_input"} -> "T"
      [] c = "Sx.input" -> "Sx"
      [] c = "Tx.output" -> "Tx"

input_connections(n)  == {c \in DOMAIN partner : OwnerOf(c) = n /\ IsInput(c)}
output_connections(n) == {c \in DOMAIN partner : OwnerOf(c) = n /\ IsOutput(c)}

(***************************************************************************)
(* Queues and the connector heap                                           *)
(***************************************************************************)
QueueIds(g) == 1 .. (2 * Cardinality(Conns(g)) + 1)

Heap == [partner |-> partner, cqueue |-> cqueue, qitems |-> qitems, qmax |-> qmax]

Referenced(h) == {h.cqueue[c] : c \in DOMAIN h.cqueue}

\* mp.Queue(...): a queue object distinct from every queue some connector holds
\* now or held when the call began.
NewQueue(h, held) ==
    CHOOSE q \in DOMAIN h.qitems :
        \E free \in {DOMAIN h.qitems \ (Referenced(h) \cup held)} :
            q \in free /\ \A r \in free : q <= r

\* Queue identities are only names for objects: what a program can observe is
\* which connectors hold the same queue (`is`) and what each queue contains.
\* After every call the queues are renamed so that a queue is named by the
\* position of the first connector that holds it, and a queue no connector
\* holds any more (garbage) is forgotten.
Collect(heap) ==
    LET Renamed(h, cs) ==
            LET first(i) == \A j \in 1 .. (i - 1) : h.cqueue[cs[j]] # h.cqueue[cs[i]]
                held(i)  == i <= Len(cs) /\ first(i)
            IN  [partner |-> h.partner,
                 cqueue  |-> [c \in DOMAIN h.cqueue |->
                                CHOOSE i \in 1 .. Len(cs) :
                                    h.cqueue[cs[i]] = h.cqueue[c] /\ first(i)],
                 qitems  |-> [i \in DOMAIN h.qitems |->
                                IF held(i) THEN h.qitems[h.cqueue[cs[i]]] ELSE <<>>],
                 qmax    |-> [i \in DOMAIN h.qmax |->
                                IF held(i) THEN h.qmax[h.cqueue[cs[i]]] ELSE 0]]
    IN  CHOOSE r \in {Renamed(h[1], h[2]) : h \in {<<heap, ConnSeq(graph)>>}} : TRUE

\* DataStore.empty / full / size
size(c)  == Len(qitems[cqueue[c]])
empty(c) == qitems[cqueue[c]] = <<>>

\* A variant of full for a queue that takes items without limit
full_never(c) == FALSE

full(c) == qmax[cqueue[c]] > 0 /\ Len(qitems[cqueue[c]]) >= qmax[cqueue[c]]

\* Connector.is_connected
is_connected(h, c) == h.partner[c] # None

(***************************************************************************)
(* Connector.connect and Connector.disconnect                              *)
(***************************************************************************)
\* What self.connect(connector) raises, or None.  Both packages compare the
\* exact classes (type(connector) is type(self)).  simple_pipe then looks only
\* at the argument's partner; egon looks at both sides, but the exception it
\* names, exceptions.OverwriteConnectionError, is not defined in
\* egon/exceptions.py, so evaluating the raise statement raises AttributeError.
connect_raises(h, self, connector) ==
    IF ClassOf(connector) = ClassOf(self)
    THEN "ValueError: same type"
    ELSE IF impl = "simple_pipe"
         THEN IF is_connected(h, connector)
              THEN "ValueError: pre-established connection"
              ELSE None
         ELSE IF is_connected(h, connector) \/ is_connected(h, self)
              THEN "AttributeError: OverwriteConnectionError"
              ELSE None

\* A variant of connect that records the partners but leaves the argument
\* with the queue it had
connect_effect_no_share(h, self, connector, m) ==
    IF impl = "simple_pipe"
    THEN [h EXCEPT !.partner[self] = connector,
                   !.partner[connector] = self]
    ELSE CHOOSE r \in {[h EXCEPT !.partner[self] = connector,
                                 !.partner[connector] = self,
                                 !.cqueue[self] = q,
                                 !.qitems[q] = <<>>,
                                 !.qmax[q] = m] : q \in {NewQueue(h, Referenced(h))}} : TRUE

\* A variant of connect in which both sides end up with the queue the argument
\* held, and the caller's queue is dropped
connect_effect_keep_argument(h, self, connector, m) ==
    [h EXCEPT !.partner[self] = connector,
              !.partner[connector] = self,
              !.cqueue[self] = h.cqueue[connector]]

\* The heap after a connect that does not raise.  simple_pipe hands the caller's
\* queue to the argument; egon installs a new mp.Queue(maxsize) on both sides.
connect_effect(h, self, connector, m) ==
    IF impl = "simple_pipe"
    THEN [h EXCEPT !.partner[self] = connector,
                   !.partner[connector] = self,
                   !.cqueue[connector] = h.cqueue[self]]
    ELSE CHOOSE r \in {[h EXCEPT !.partner[self] = connector,
                                 !.partner[connector] = self,
                                 !.cqueue[self] = q,
                                 !.cqueue[connector] = q,
                                 !.qitems[q] = <<>>,
                                 !.qmax[q] = m] : q \in {NewQueue(h, Referenced(h))}} : TRUE

\* A variant of connect that assigns the partners and the queue before it
\* looks at the connectors, and so also when it raises
connect_assign_first(heap, self, connector, m) ==
    CHOOSE r \in {Collect(connect_effect(h, self, connector, m)) : h \in {heap}} : TRUE

connect(heap, self, connector, m) ==
    LET Result(h) == IF connect_raises(h, self, connector) # None
                     THEN h
                     ELSE Collect(connect_effect(h, self, connector, m))
    IN  CHOOSE r \in {Result(h) : h \in {heap}} : TRUE

\* A variant of disconnect that keeps the queue the connector holds
RECURSIVE disconnect_from_keep_queue(_, _, _)
disconnect_from_keep_queue(heap, self, held) ==
    LET Rest(h, h1) ==
            LET old_partner == h.partner[self]
            IN  IF old_partner # None
                THEN disconnect_from_keep_queue(h1, old_partner, held)
                ELSE h1
    IN  CHOOSE r \in {Rest(h, [h EXCEPT !.partner[self] = None]) : h \in {heap}} : TRUE

\* A variant of disconnect that does not disconnect the old partner
disconnect_from_self_only(heap, self, held) ==
    CHOOSE r \in {[h EXCEPT !.partner[self] = None,
                            !.cqueue[self] = q,
                            !.qitems[q] = <<>>,
                            !.qmax[q] = IF impl = "simple_pipe" THEN maxsize[self] ELSE 0] :
                     h \in {heap}, q \in {NewQueue(heap, held)}} : TRUE

\* A variant of disconnect that also clears every connector whose partner is
\* the connector being disconnected
RECURSIVE disconnect_from_clear_referrers(_, _, _)
disconnect_from_clear_referrers(heap, self, held) ==
    LET Step(h, q) ==
            [h EXCEPT !.partner = [c \in DOMAIN h.partner |->
                                     IF c = self \/ h.partner[c] = self
                                     THEN None ELSE h.partner[c]],
                      !.cqueue[self] = q,
                      !.qitems[q] = <<>>,
                      !.qmax[q] = IF impl = "simple_pipe" THEN maxsize[self] ELSE 0]
        Rest(h, h1) ==
            LET old_partner == h.partner[self]
            IN  IF old_partner # None
                THEN disconnect_from_clear_referrers(h1, old_partner, held)
                ELSE h1
    IN  CHOOSE r \in {Rest(h[1], h[2]) :
                        h \in {<<h0, Step(h0, NewQueue(h0, held))>> : h0 \in {heap}}} : TRUE

\* self.disconnect(): drop the partner, take a new queue, then disconnect the
\* old partner (which in turn disconnects whatever its partner was).
RECURSIVE disconnect_from(_, _, _)
disconnect_from(heap, self, held) ==
    LET Step(h, q) ==
            [h EXCEPT !.partner[self] = None,
                      !.cqueue[self] = q,
                      !.qitems[q] = <<>>,
                      !.qmax[q] = IF impl = "simple_pipe" THEN maxsize[self] ELSE 0]
        Rest(h, h1) ==
            LET old_partner == h.partner[self]
            IN  IF old_partner # None
                THEN disconnect_from(h1, old_partner, held)
                ELSE h1
    IN  CHOOSE r \in {Rest(h[1], h[2]) :
                        h \in {<<h0, Step(h0, NewQueue(h0, held))>> : h0 \in {heap}}} : TRUE

disconnect(heap, self) ==
    CHOOSE r \in {Collect(disconnect_from(h, self, Referenced(h))) : h \in {heap}} : TRUE

(***************************************************************************)
(* The expecting-more-input check                                          *)
(***************************************************************************)
\* simple_pipe Node.input_nodes: [c._node for c in self.input_connections()].
\* c._node is the owner of the node's own input connector.
input_nodes(n) == {OwnerOf(c) : c \in input_connections(n)}

\* simple_pipe Node.output_nodes: [c._node for c in self.output_connections()]
output_nodes(n) == {OwnerOf(c) : c \in output_connections(n)}

\* simple_pipe Target.expecting_inputs, evaluated in process p
expecting_inputs(p, n) ==
    ~ ( /\ \A m \in input_nodes(n) : mem[p][m]
        /\ \A c \in input_connections(n) : empty(c) )

\* The multi-partner connector API that egon/nodes.py calls is not in
\* egon/connectors.py: the partners of a connector, as a collection.
get_partners(c) == IF partner[c] = None THEN {} ELSE {partner[c]}

\* egon _get_nodes_from_connectors: the parent nodes of the partners
get_nodes_from_connectors(cs) ==
    {OwnerOf(p) : p \in UNION {get_partners(c) : c \in cs}}

\* egon AbstractNode.upstream_nodes / downstream_nodes
upstream_nodes(n) == get_nodes_from_connectors(input_connections(n))
downstream_nodes(n) == get_nodes_from_connectors(output_connections(n))

\* egon AbstractNode.node_finished
node_finished(n) == egon[n].node_finished

\* egon AbstractNode.expecting_data: for each input, first the upstream flags,
\* then the queue.
expecting_data(n) ==
    \E c \in input_connections(n) :
        \/ \E o \in get_partners(c) : ~ node_finished(OwnerOf(o))
        \/ ~ empty(c)

\* The expecting-more-input check of the package in use
ExpectingMore(p, n) ==
    IF impl = "simple_pipe" THEN expecting_inputs(p, n) ELSE expecting_data(n)

(***************************************************************************)
(* Processes                                                               *)
(***************************************************************************)
\* The process that builds the graph and the pipeline
Parent == <<"parent", 0>>

\* The worker processes: one per (node, replica index)
Workers == DOMAIN stage
NodeOf(w) == w[1]

Kind(n) ==
    CASE n \in {"A", "B", "src", "S", "Sx", "S0"} -> "Source"
      [] n \in {"T", "tgt", "Tx", "T0"}          -> "Target"
      [] n \in {"inl", "N", "N0"}                -> "Inline"

\* The state right after the connectors and nodes are constructed: every
\* connector holds its own empty queue and has no partner, no flag is set.
NewHeap(g, ms) ==
    [partner |-> [c \in Conns(g) |-> None],
     cqueue  |-> [c \in Conns(g) |-> CHOOSE i \in 1 .. Len(ConnSeq(g)) : ConnSeq(g)[i] = c],
     qitems  |-> [q \in QueueIds(g) |-> <<>>],
     qmax    |-> [q \in QueueIds(g) |->
                    IF q <= Len(ConnSeq(g)) THEN ms[ConnSeq(g)[q]] ELSE 0]]

NewFlags(g) ==
    [n \in Nodes(g) |-> [is_running |-> FALSE,
                         current_process_finished |-> FALSE,
                         node_finished |-> FALSE]]

NoCall == [op |-> "none", a |-> None, b |-> None, val |-> None]

\* No evaluation of the check is in progress
NoCheck == [node |-> None, todo |-> << >>]

(***************************************************************************)
(* Validation                                                              *)
(***************************************************************************)
\* The outcome of a validation call: the exception raised and the connector
\* its message names, or None
Passes == [err |-> None, at |-> None]
Raises(e, c) == [err |-> e, at |-> c]

\* The first connector of S in the order inspect.getmembers lists attributes
FirstConnector(S) ==
    LET cs == ConnSeq(graph)
    IN  cs[CHOOSE i \in 1 .. Len(cs) :
               cs[i] \in S /\ \A j \in 1 .. (i - 1) : cs[j] \notin S]

\* egon AbstractNode.get_connectors: the attributes that are instances of the
\* connector base class
get_connectors(n) == {c \in DOMAIN partner : OwnerOf(c) = n}

\* `conn.is_connected` as AbstractNode._validate_connections reads it: the
\* attribute is not called, and the bound method of Connector is a true value
is_connected_attribute(h, c) == TRUE

\* egon AbstractNode._validate_connections
validate_connections(h, n) ==
    LET missing == {c \in get_connectors(n) : ~ is_connected_attribute(h, c)}
    IN  IF missing # {}
        THEN Raises("MissingConnectionError", FirstConnector(missing))
        ELSE Passes

\* A variant of the role validation without the checks for a node that has
\* no connector
egon_validate_no_orphan_check(h, n) ==
    CASE Kind(n) = "Source" ->
            IF input_connections(n) # {}
            THEN Raises("MalformedSourceError", None)
            ELSE validate_connections(h, n)
      [] Kind(n) = "Target" ->
            IF output_connections(n) # {}
            THEN Raises("MalformedTargetError", None)
            ELSE validate_connections(h, n)
      [] Kind(n) = "Inline" -> validate_connections(h, n)

\* egon Source.validate / Target.validate / Node.validate
egon_validate(h, n) ==
    CASE Kind(n) = "Source" ->
            IF input_connections(n) # {}
            THEN Raises("MalformedSourceError", None)
            ELSE IF output_connections(n) = {}
                 THEN Raises("OrphanedNodeError", None)
                 ELSE validate_connections(h, n)
      [] Kind(n) = "Target" ->
            IF output_connections(n) # {}
            THEN Raises("MalformedTargetError", None)
            ELSE IF input_connections(n) = {}
                 THEN Raises("OrphanedNodeError", None)
                 ELSE validate_connections(h, n)
      [] Kind(n) = "Inline" ->
            IF get_connectors(n) = {}
            THEN Raises("OrphanedNodeError", None)
            ELSE validate_connections(h, n)

\* simple_pipe Source._validate / Target._validate / Inline._validate, which
\* Node.__init__ calls
simple_pipe_validate(n) ==
    CASE Kind(n) = "Source" ->
            IF input_connections(n) # {} \/ output_connections(n) = {}
            THEN Raises("ValueError", None)
            ELSE Passes
      [] Kind(n) = "Target" ->
            IF input_connections(n) = {} \/ output_connections(n) # {}
            THEN Raises("ValueError", None)
            ELSE Passes
      [] Kind(n) = "Inline" ->
            IF input_connections(n) = {} /\ output_connections(n) = {}
            THEN Raises("ValueError", None)
            ELSE Passes

\* The validation a node object of the package in use goes through
node_validate(h, n) ==
    IF impl = "egon" THEN egon_validate(h, n) ELSE simple_pipe_validate(n)

\* The method egon Pipeline.validate calls on each node is not in
\* egon/nodes.py: the node's own validation, connections included
node_validate_connections(h, n) == egon_validate(h, n)

\* Pipeline.get_nodes / AbstractPipeline.nodes: the node attributes of a
\* pipeline holding the nodes ms, in attribute-name order
get_nodes(ms) == SelectSeq(NodeSeq(graph), LAMBDA n : n \in ms)

\* egon Pipeline.validate: the first exception a node raises leaves the loop.
\* simple_pipe AbstractPipeline.validate is `raise NotImplemented`, which is a
\* TypeError.
RECURSIVE first_failure(_, _)
first_failure(h, ns) ==
    IF ns = << >> THEN Passes
    ELSE IF node_validate_connections(h, Head(ns)).err # None
         THEN node_validate_connections(h, Head(ns))
         ELSE first_failure(h, Tail(ns))

pipeline_validate(h, ms) ==
    IF impl = "egon" THEN first_failure(h, get_nodes(ms)) ELSE Raises("TypeError", None)

\* A variant of validate that disconnects every connector of a node it rejects
validate_effect_disconnecting(h, ns) ==
    IF \E n \in ns : node_validate(h, n).err # None /\ get_connectors(n) # {}
    THEN LET n == CHOOSE m \in ns : node_validate(h, m).err # None /\ get_connectors(m) # {}
         IN  disconnect(h, FirstConnector(get_connectors(n)))
    ELSE h

\* What validating the nodes ns assigns: validate and _validate_connections
\* only read the nodes and their connectors
validate_effect(h, ns) == h

(***************************************************************************)
(* One process using the connector and node API (ConnSpec, CheckSpec)      *)
(***************************************************************************)
\* Four unconnected connectors: outputs o1 (node A) and o2 (node B), inputs i1
\* and i2 (node T)
ApiInit ==
    /\ impl \in {"simple_pipe", "egon"}
    /\ graph = "api"
    /\ maxsize = [c \in Conns("api") |->
                    IF impl = "simple_pipe" /\ c = "o2" THEN QueueCap ELSE 0]
    /\ \E h \in {NewHeap("api", maxsize)} :
           /\ partner = h.partner
           /\ cqueue = h.cqueue
           /\ qitems = h.qitems
           /\ qmax = h.qmax
    /\ mem = [p \in {Parent} |-> [n \in Nodes("api") |-> FALSE]]
    /\ egon = NewFlags("api")
    /\ ret = NoCall
    /\ nproc = [n \in Nodes("api") |-> 1]
    /\ started = 0
    /\ stage = << >>
    /\ apc = << >>
    /\ sent = << >>
    /\ local = << >>
    /\ calls = << >>
    /\ exc = << >>
    /\ captured = << >>
    /\ chk = NoCheck

SetHeap(h) ==
    /\ partner' = h.partner
    /\ cqueue' = h.cqueue
    /\ qitems' = h.qitems
    /\ qmax' = h.qmax

\* a.connect(b) in simple_pipe, a.connect(b, maxsize=m) in egon
ApiConnect(a, b, m) ==
    /\ a # b
    /\ impl = "simple_pipe" => m = 0
    /\ \E h \in {connect(Heap, a, b, m)} : SetHeap(h)
    /\ ret' = [op |-> "connect", a |-> a, b |-> b, val |-> connect_raises(Heap, a, b)]
    /\ UNCHANGED <<confVars, chk, flagVars, runVars>>

\* a.disconnect(); b records old_partner, the partner a had when called
ApiDisconnect(a) ==
    /\ \E h \in {disconnect(Heap, a)} : SetHeap(h)
    /\ ret' = [op |-> "disconnect", a |-> a, b |-> partner[a], val |-> None]
    /\ UNCHANGED <<confVars, chk, flagVars, runVars>>

RECURSIVE SumLen(_, _)
SumLen(f, S) ==
    IF S = {} THEN 0
    ELSE LET q == CHOOSE x \in S : TRUE IN Len(f[q]) + SumLen(f, S \ {q})

\* o.put(v): Output.put; a put on a full queue would block the only process
ApiPut(o, v, limit) ==
    /\ IsOutput(o)
    /\ ~ full(o)
    /\ SumLen(qitems, DOMAIN qitems) < limit
    /\ qitems' = [qitems EXCEPT ![cqueue[o]] = Append(@, v)]
    /\ ret' = [op |-> "put", a |-> o, b |-> None, val |-> v]
    /\ UNCHANGED <<confVars, chk, partner, cqueue, qmax, flagVars, runVars>>

\* A variant of Queue.get that hands out the newest item
queue_get_newest(items) == items[Len(items)]

\* Queue.get on a queue that holds items: the oldest item
queue_get(items) == Head(items)

\* How a caller asks for an item: "nonblocking" is get(block=False), which is
\* also simple_pipe's default call; "timeout" is a blocking get with a timeout;
\* "blocking" is a blocking get without a timeout, egon's default call
GetModes == {"nonblocking", "timeout", "blocking"}

\* Whether the call i.get(...) made now comes back at all.  A blocking get
\* without a timeout waits: simple_pipe's for an item in the queue, egon's for
\* its loop test, the finished flag of the input's own node.
get_returns(i, mode) ==
    mode = "blocking" =>
        IF impl = "simple_pipe" THEN ~ empty(i) ELSE node_finished(OwnerOf(i))

\* simple_pipe Input.get: self._queue.get(block, timeout).  Both a
\* non-blocking get and a blocking get whose timeout elapses raise queue.Empty
\* on an empty queue; otherwise the oldest item is returned.
simple_pipe_get(i, mode) ==
    IF empty(i)
    THEN [val |-> "queue.Empty", took |-> FALSE]
    ELSE [val |-> queue_get(qitems[cqueue[i]]), took |-> TRUE]

\* egon Input.get(timeout, refresh_interval).  It has no `block` parameter.
\* Inside its loop it returns KillSignal when the parent node has finished and
\* otherwise calls itself, not the queue: the recursion ends in
\* RecursionError, which the bare except turns into an expired timeout, so a
\* call with a timeout raises TimeoutError whatever the queue holds.  (A call
\* without a timeout on an unfinished node never returns: it is not a step.)
egon_get(i, mode) ==
    IF mode = "nonblocking"
    THEN [val |-> "TypeError", took |-> FALSE]
    ELSE IF node_finished(OwnerOf(i))
         THEN [val |-> "KillSignal", took |-> FALSE]
         ELSE [val |-> "TimeoutError", took |-> FALSE]

\* i.get(...): ret.b records how the item was asked for, ret.val what the call
\* returned or raised
ApiGet(i, mode) ==
    /\ IsInput(i)
    /\ get_returns(i, mode)
    /\ \E out \in {IF impl = "simple_pipe" THEN simple_pipe_get(i, mode)
                                             ELSE egon_get(i, mode)} :
           /\ ret' = [op |-> "get", a |-> i, b |-> mode, val |-> out.val]
           /\ qitems' = IF out.took THEN [qitems EXCEPT ![cqueue[i]] = Tail(@)] ELSE qitems
    /\ UNCHANGED <<confVars, chk, partner, cqueue, qmax, flagVars, runVars>>

\* n.execute() called in this process on a node whose setup, action and
\* teardown are placeholders: the flag of this process's node object is set.
ApiExecute(n) ==
    /\ impl = "simple_pipe"
    /\ mem' = [mem EXCEPT ![Parent][n] = TRUE]
    /\ UNCHANGED egon
    /\ ret' = [op |-> "execute", a |-> n, b |-> None, val |-> None]
    /\ UNCHANGED <<confVars, chk, heapVars, runVars>>

\* A variant of the test _run_pool starts with that lets every call through
run_pool_refused_never(n) == FALSE

\* The test _run_pool starts with: a node that is running or has finished is
\* not run again
run_pool_refused(n) == egon[n].is_running \/ egon[n].node_finished

\* egon n._run_pool().  pool.apply(self.execute) runs execute once in a pool
\* worker, on a pickled copy of the node, and blocks until it is done; it either
\* returns or raises (what execute raised, or the failure to pickle the node).
ApiRunPool(n, outcome) ==
    /\ impl = "egon"
    \* mp.Pool(0) raises ValueError
    /\ nproc[n] = 0 => outcome = "raises"
    /\ IF run_pool_refused(n)
       THEN /\ ret' = [op |-> "_run_pool", a |-> n, b |-> None, val |-> "RuntimeError"]
            /\ UNCHANGED egon
       ELSE IF outcome = "returns"
            THEN /\ egon' = [egon EXCEPT ![n].is_running = FALSE,
                                         ![n].node_finished = TRUE]
                 /\ ret' = [op |-> "_run_pool", a |-> n, b |-> None, val |-> None]
            ELSE /\ egon' = [egon EXCEPT ![n].is_running = TRUE]
                 /\ ret' = [op |-> "_run_pool", a |-> n, b |-> None, val |-> "raised"]
    /\ UNCHANGED <<confVars, chk, heapVars, mem, runVars>>

\* The egon num_processes setter: what it raises, or None
num_processes_setter(n, v) ==
    IF v < 0 THEN "ValueError"
    ELSE IF egon[n].is_running THEN "RuntimeError"
    ELSE None

\* n.num_processes = v in egon; ret.b records v
ApiSetNumProcesses(n, v) ==
    /\ impl = "egon"
    /\ ret' = [op |-> "num_processes", a |-> n, b |-> v, val |-> num_processes_setter(n, v)]
    /\ nproc' = IF num_processes_setter(n, v) = None THEN [nproc EXCEPT ![n] = v] ELSE nproc
    /\ UNCHANGED <<impl, graph, maxsize, chk, heapVars, flagVars, runVars>>

\* n.expecting_inputs() / n.expecting_data() called in this process
ApiCheck(n) ==
    /\ input_connections(n) # {}
    /\ ret' = [op |-> "check", a |-> n, b |-> None, val |-> ExpectingMore(Parent, n)]
    /\ UNCHANGED <<confVars, chk, heapVars, flagVars, runVars>>

\* ConnSpec: connecting, disconnecting and using four connectors
ConnNext ==
    \/ \E a, b \in Conns("api"), m \in {0, QueueCap} : ApiConnect(a, b, m)
    \/ \E a \in Conns("api") : ApiDisconnect(a)
    \/ \E o \in Conns("api"), v \in Items : ApiPut(o, v, MaxConnItems)
    \* the default get of simple_pipe; egon's get takes nothing from a queue and
    \* changes no connector (CheckSpec calls it)
    \/ \E i \in Conns("api") : impl = "simple_pipe" /\ ApiGet(i, "nonblocking")

ConnSpec == ApiInit /\ [][ConnNext]_vars

\* CheckSpec: the graph wired as A.o1 -> T.i1 and B.o2 -> T.i2, then puts, gets,
\* node executions and the expecting-more-input check
Wired ==
    LET h1 == connect(NewHeap("api", maxsize), "o1", "i1", 0)
    IN  connect(h1, "o2", "i2", 0)

CheckInit ==
    /\ impl \in {"simple_pipe", "egon"}
    /\ graph = "api"
    /\ maxsize = [c \in Conns("api") |-> 0]
    /\ \E h \in {Wired} :
           /\ partner = h.partner
           /\ cqueue = h.cqueue
           /\ qitems = h.qitems
           /\ qmax = h.qmax
    /\ mem = [p \in {Parent} |-> [n \in Nodes("api") |-> FALSE]]
    /\ egon = NewFlags("api")
    /\ ret = NoCall
    \* an upstream node may be configured with zero replicas (num_processes = 0)
    /\ nproc \in {np \in [Nodes("api") -> 0 .. 1] : np["T"] = 1}
    /\ started = 0
    /\ stage = << >>
    /\ apc = << >>
    /\ sent = << >>
    /\ local = << >>
    /\ calls = << >>
    /\ exc = << >>
    /\ captured = << >>
    /\ chk = NoCheck

CheckNext ==
    \/ \E o \in Conns("api"), v \in Items : ApiPut(o, v, MaxQLen)
    \/ \E i \in Conns("api"), mode \in GetModes : ApiGet(i, mode)
    \/ \E n \in Nodes("api") : ApiExecute(n)
    \/ \E n \in Nodes("api"), outcome \in {"returns", "raises"} : ApiRunPool(n, outcome)
    \/ \E n \in Nodes("api") : ApiCheck(n)
    \/ \E n \in Nodes("api"), v \in (0 - 1) .. 1 : ApiSetNumProcesses(n, v)

CheckSpec == CheckInit /\ [][CheckNext]_vars

\* RaceSpec: the check evaluated read by read in one thread while the upstream
\* nodes put items and finish in others.
\* The input connectors of n in the order the node lists its attributes
InputSeq(n) == SelectSeq(ConnSeq(graph), LAMBDA c : c \in input_connections(n))

FlagRead(n) == [kind |-> "flag", of |-> n]
QueueRead(c) == [kind |-> "queue", of |-> c]

\* The reads egon expecting_data makes if none ends it early: for each input
\* in turn, the finished flags of its partners' nodes, then its queue
RECURSIVE expecting_data_reads(_)
expecting_data_reads(ins) ==
    IF ins = << >>
    THEN << >>
    ELSE LET c == Head(ins)
         IN  (IF get_partners(c) = {} THEN << >>
              ELSE <<FlagRead(OwnerOf(partner[c]))>>)
             \o <<QueueRead(c)>> \o expecting_data_reads(Tail(ins))

\* The reads simple_pipe expecting_inputs makes if none ends it early: the
\* finished flag of every member of input_nodes(), then every input queue
expecting_inputs_reads(ins) ==
    [k \in 1 .. Len(ins) |-> FlagRead(OwnerOf(ins[k]))]
    \o [k \in 1 .. Len(ins) |-> QueueRead(ins[k])]

check_reads(n) ==
    IF impl = "simple_pipe" THEN expecting_inputs_reads(InputSeq(n))
                            ELSE expecting_data_reads(InputSeq(n))

\* What one read of the check finds: TRUE for a finished node or an empty queue
ReadValue(r) ==
    IF r.kind = "flag"
    THEN IF impl = "simple_pipe" THEN mem[Parent][r.of] ELSE node_finished(r.of)
    ELSE empty(r.of)

\* A thread starts evaluating n.expecting_inputs() / n.expecting_data()
CheckBegin(n) ==
    /\ chk.node = None
    /\ input_connections(n) # {}
    /\ chk' = [node |-> n, todo |-> check_reads(n)]
    /\ UNCHANGED <<confVars, heapVars, flagVars, ret, runVars>>

\* The evaluation makes its next read.  An unfinished node or a non-empty queue
\* ends it with True; after the last read it returns False.
CheckRead ==
    /\ chk.node # None
    /\ IF ~ ReadValue(Head(chk.todo))
       THEN /\ ret' = [op |-> "check", a |-> chk.node, b |-> "stepwise", val |-> TRUE]
            /\ chk' = NoCheck
       ELSE IF Tail(chk.todo) = << >>
            THEN /\ ret' = [op |-> "check", a |-> chk.node, b |-> "stepwise", val |-> FALSE]
                 /\ chk' = NoCheck
            ELSE /\ chk' = [chk EXCEPT !.todo = Tail(@)]
                 /\ ret' = ret
    /\ UNCHANGED <<confVars, heapVars, flagVars, runVars>>

\* An upstream node that has not finished puts an item
ProducerPut(o, v) ==
    /\ ~ (IF impl = "simple_pipe" THEN mem[Parent][OwnerOf(o)] ELSE node_finished(OwnerOf(o)))
    /\ ApiPut(o, v, MaxQLen)

RaceNext ==
    \/ \E o \in Conns("api"), v \in Items : ProducerPut(o, v)
    \/ \E n \in Nodes("api") : ApiExecute(n)
    \/ \E n \in Nodes("api"), outcome \in {"returns", "raises"} : ApiRunPool(n, outcome)
    \/ \E n \in Nodes("api") : CheckBegin(n)
    \/ CheckRead

RaceSpec == CheckInit /\ [][RaceNext]_vars

(***************************************************************************)
(* ValSpec: wiring and validating nodes of every shape                     *)
(***************************************************************************)
\* The nodes: S (Source, one Output), T (Target, two Inputs), N (Inline, one
\* Input and one Output), Sx (Source declaring an Input), Tx (Target declaring
\* an Output), S0 / T0 / N0 (Source / Target / Inline declaring no connector)
ValInit ==
    /\ impl \in {"simple_pipe", "egon"}
    /\ graph = "val"
    /\ maxsize = [c \in Conns("val") |-> 0]
    /\ \E h \in {NewHeap("val", maxsize)} :
           /\ partner = h.partner
           /\ cqueue = h.cqueue
           /\ qitems = h.qitems
           /\ qmax = h.qmax
    /\ mem = [p \in {Parent} |-> [n \in Nodes("val") |-> FALSE]]
    /\ egon = NewFlags("val")
    /\ ret = NoCall
    /\ nproc = [n \in Nodes("val") |-> 1]
    /\ started = 0
    /\ stage = << >>
    /\ apc = << >>
    /\ sent = << >>
    /\ local = << >>
    /\ calls = << >>
    /\ exc = << >>
    /\ captured = << >>
    /\ chk = NoCheck

\* The user wires two nodes: o.connect(i) on an Output and an Input that have
\* no partner yet
Wire(o, i) ==
    /\ IsOutput(o) /\ IsInput(i)
    /\ partner[o] = None /\ partner[i] = None
    /\ ApiConnect(o, i, 0)

\* n.validate() in egon; in simple_pipe the self._validate() call that
\* Node.__init__ makes when a node of this shape is constructed
NodeValidate(n) ==
    /\ \E h \in {validate_effect(Heap, {n})} : SetHeap(h)
    /\ \E out \in {node_validate(Heap, n)} :
           ret' = [op |-> "validate", a |-> n, b |-> out.at, val |-> out.err]
    /\ UNCHANGED <<confVars, chk, flagVars, runVars>>

\* validate() called on a pipeline whose node attributes are ms; simple_pipe
\* nodes exist only if their constructor returned
PipelineValidate(ms) ==
    /\ Cardinality(ms) <= MaxPipelineNodes
    /\ impl = "simple_pipe" => \A n \in ms : simple_pipe_validate(n).err = None
    /\ \E h \in {validate_effect(Heap, ms)} : SetHeap(h)
    /\ \E out \in {pipeline_validate(Heap, ms)} :
           ret' = [op |-> "Pipeline.validate", a |-> ms, b |-> out.at, val |-> out.err]
    /\ UNCHANGED <<confVars, chk, flagVars, runVars>>

\* n.input_nodes() and n.output_nodes() in simple_pipe, n.upstream_nodes() and
\* n.downstream_nodes() in egon; ret.val is the upstream list, ret.b the
\* downstream list
Navigate(n) ==
    /\ impl = "simple_pipe" => simple_pipe_validate(n).err = None
    /\ ret' = [op |-> "navigate", a |-> n,
               b |-> IF impl = "simple_pipe" THEN output_nodes(n) ELSE downstream_nodes(n),
               val |-> IF impl = "simple_pipe" THEN input_nodes(n) ELSE upstream_nodes(n)]
    /\ UNCHANGED <<confVars, chk, heapVars, flagVars, runVars>>

ValNext ==
    \/ \E o, i \in Conns("val") : Wire(o, i)
    \/ \E a \in Conns("val") : ApiDisconnect(a)
    \/ \E n \in Nodes("val") : NodeValidate(n)
    \/ \E ms \in SUBSET Nodes("val") : PipelineValidate(ms)
    \/ \E n \in Nodes("val") : Navigate(n)

ValSpec == ValInit /\ [][ValNext]_vars

(***************************************************************************)
(* Spec: the simple_pipe Pipeline running decorator-built nodes            *)
(***************************************************************************)
\* A variant of _allocate_processes that allocates one process per node
RECURSIVE allocate_one_per_node(_, _)
allocate_one_per_node(ns, np) ==
    IF ns = << >> THEN << >>
    ELSE <<<<Head(ns), 1>>>> \o allocate_one_per_node(Tail(ns), np)

\* Pipeline._allocate_processes: one process per node and replica index, in
\* node order
RECURSIVE allocate_processes(_, _)
allocate_processes(ns, np) ==
    IF ns = << >> THEN << >>
    ELSE [k \in 1 .. np[Head(ns)] |-> <<Head(ns), k>>] \o allocate_processes(Tail(ns), np)

Processes == allocate_processes(NodeSeq(graph), nproc)

\* The graph as the user wires it: each output connects to the next input
PipelineHeap(g, ms) ==
    IF g = "ST"
    THEN connect(NewHeap(g, ms), "src.output", "tgt.input", 0)
    ELSE connect(connect(NewHeap(g, ms), "src.output", "inl.input", 0),
                 "inl.output", "tgt.input", 0)

\* The connectors of the decorator-built nodes: WrappedSource.output,
\* WrappedTarget.input, WrappedInline.input and .output
InputOf(n)  == CHOOSE c \in input_connections(n) : TRUE
OutputOf(n) == CHOOSE c \in output_connections(n) : TRUE

\* The function an Inline node wraps in the three-stage scenario
Double(x) == 2 * x

\* The values the Source's generator function yields in the scenarios
Emitted == <<1, 2, 3>>

Init ==
    /\ impl = "simple_pipe"
    /\ graph \in {"ST", "SIT"}
    /\ maxsize \in {ms \in [Conns(graph) -> {0, QueueCap}] :
                      \A c \in Conns(graph) : c # "src.output" => ms[c] = 0}
    \* one node at most runs more than one replica, and not the source of the
    \* three-stage graph
    /\ nproc \in {np \in [Nodes(graph) -> 1 .. MaxProcs] :
                    /\ Cardinality({n \in Nodes(graph) : np[n] > 1}) <= 1
                    /\ graph = "SIT" => np["src"] = 1}
    /\ \E h \in {PipelineHeap(graph, maxsize)} :
           /\ partner = h.partner
           /\ cqueue = h.cqueue
           /\ qitems = h.qitems
           /\ qmax = h.qmax
    /\ egon = NewFlags(graph)
    /\ ret = NoCall
    /\ started = 0
    /\ \E ws \in {{Processes[i] : i \in 1 .. Len(Processes)}} :
           /\ mem = [p \in {Parent} \cup ws |-> [n \in Nodes(graph) |-> FALSE]]
           /\ stage = [w \in ws |-> "new"]
           /\ apc = [w \in ws |-> "enter"]
           /\ sent = [w \in ws |-> 0]
           /\ local = [w \in ws |-> 0]
           /\ calls = [w \in ws |-> << >>]
           /\ exc = [w \in ws |-> None]
    /\ captured = << >>
    /\ chk = NoCheck

\* A pipeline whose user connected the Source to the Inline node and left
\* the Inline node's output and the Target's input unconnected
UnwiredInit ==
    /\ impl = "simple_pipe"
    /\ graph = "SIT"
    /\ maxsize = [c \in Conns("SIT") |-> 0]
    /\ nproc = [n \in Nodes("SIT") |-> 1]
    /\ \E h \in {connect(NewHeap("SIT", maxsize), "src.output", "inl.input", 0)} :
           /\ partner = h.partner
           /\ cqueue = h.cqueue
           /\ qitems = h.qitems
           /\ qmax = h.qmax
    /\ egon = NewFlags("SIT")
    /\ ret = NoCall
    /\ started = 0
    /\ \E ws \in {{Processes[i] : i \in 1 .. Len(Processes)}} :
           /\ mem = [p \in {Parent} \cup ws |-> [n \in Nodes("SIT") |-> FALSE]]
           /\ stage = [w \in ws |-> "new"]
           /\ apc = [w \in ws |-> "enter"]
           /\ sent = [w \in ws |-> 0]
           /\ local = [w \in ws |-> 0]
           /\ calls = [w \in ws |-> << >>]
           /\ exc = [w \in ws |-> None]
    /\ captured = << >>
    /\ chk = NoCheck

\* A variant of execute that sets the finished flag before teardown
execute_next_flag_first(s) ==
    CASE s = "setup"    -> "action"
      [] s = "action"   -> "flag"
      [] s = "flag"     -> "teardown"
      [] s = "teardown" -> "done"

\* A variant of execute that calls teardown before action
execute_next_swapped(s) ==
    CASE s = "setup"    -> "teardown"
      [] s = "teardown" -> "action"
      [] s = "action"   -> "flag"
      [] s = "flag"     -> "done"

\* Node.execute: setup, then action, then teardown, then self.finished = True.
\* The stage that follows stage s when the call made in s returns.
execute_next(s) ==
    CASE s = "setup"    -> "action"
      [] s = "action"   -> "teardown"
      [] s = "teardown" -> "flag"
      [] s = "flag"     -> "done"

\* A variant of execute that starts the lifecycle again when a call raises
execute_on_raise_restart(s) == "setup"

\* A variant of execute that runs teardown in a finally clause
execute_on_raise_finally(s) == IF s = "action" THEN "teardown" ELSE "crashed"

\* execute wraps no call in try/except/finally: an exception raised by a
\* lifecycle method leaves execute at once and ends the worker process.
execute_on_raise(s) == "crashed"

\* Pipeline.run_async: p.start() for the next process of the list.  The child
\* is forked from the parent: it starts with a copy of the parent's node objects.
RunAsync ==
    /\ started < Len(Processes)
    /\ LET w == Processes[started + 1]
       IN  /\ stage[w] = "new"
           /\ stage' = [stage EXCEPT ![w] = "setup"]
           /\ mem' = [mem EXCEPT ![w] = mem[Parent]]
    /\ started' = started + 1
    /\ UNCHANGED <<confVars, chk, heapVars, egon, ret, apc, sent, local, calls, exc, captured>>

\* execute: self.setup()
Setup(w) ==
    /\ stage[w] = "setup"
    /\ calls' = [calls EXCEPT ![w] = Append(@, "setup")]
    /\ stage' = [stage EXCEPT ![w] = execute_next("setup")]
    /\ UNCHANGED <<confVars, chk, heapVars, flagVars, ret, started, apc, sent, local, exc, captured>>

\* execute: self.action() is entered
EnterAction(w) ==
    /\ stage[w] = "action" /\ apc[w] = "enter"
    /\ calls' = [calls EXCEPT ![w] = Append(@, "action")]
    /\ apc' = [apc EXCEPT ![w] = IF Kind(NodeOf(w)) = "Source" THEN "put" ELSE "check"]
    /\ UNCHANGED <<confVars, chk, heapVars, flagVars, ret, started, stage, sent, local, exc, captured>>

\* WrappedSource.action: for x in func(): self.output.put(x).  A put on a full
\* queue blocks.
SourcePut(w) ==
    /\ stage[w] = "action" /\ apc[w] = "put" /\ Kind(NodeOf(w)) = "Source"
    /\ sent[w] < Len(Emitted)
    /\ ~ full(OutputOf(NodeOf(w)))
    /\ qitems' = [qitems EXCEPT ![cqueue[OutputOf(NodeOf(w))]] = Append(@, Emitted[sent[w] + 1])]
    /\ sent' = [sent EXCEPT ![w] = @ + 1]
    /\ UNCHANGED <<confVars, chk, partner, cqueue, qmax, flagVars, ret, started, stage, apc,
                   local, calls, exc, captured>>

\* WrappedSource.action returns when the generator is exhausted
SourceReturn(w) ==
    /\ stage[w] = "action" /\ apc[w] = "put" /\ Kind(NodeOf(w)) = "Source"
    /\ sent[w] = Len(Emitted)
    /\ stage' = [stage EXCEPT ![w] = execute_next("action")]
    /\ UNCHANGED <<confVars, chk, heapVars, flagVars, ret, started, apc, sent, local, calls,
                   exc, captured>>

\* WrappedTarget / WrappedInline action: while self.expecting_inputs()
LoopTest(w) ==
    /\ stage[w] = "action" /\ apc[w] = "check"
    /\ IF ExpectingMore(w, NodeOf(w))
       THEN /\ apc' = [apc EXCEPT ![w] = "get"]
            /\ UNCHANGED stage
       ELSE /\ stage' = [stage EXCEPT ![w] = execute_next("action")]
            /\ UNCHANGED apc
    /\ UNCHANGED <<confVars, chk, heapVars, flagVars, ret, started, sent, local, calls, exc,
                   captured>>

\* self.input.get() with an item queued: Input.get(block=False) returns the
\* oldest item; the Target calls its function on it, the Inline node computes
\* out_data from it.
GetItem(w) ==
    /\ stage[w] = "action" /\ apc[w] = "get"
    /\ ~ empty(InputOf(NodeOf(w)))
    /\ LET x == queue_get(qitems[cqueue[InputOf(NodeOf(w))]])
       IN  IF Kind(NodeOf(w)) = "Target"
           THEN /\ captured' = Append(captured, x)
                /\ apc' = [apc EXCEPT ![w] = "check"]
                /\ UNCHANGED local
           ELSE /\ local' = [local EXCEPT ![w] = Double(x)]
                /\ apc' = [apc EXCEPT ![w] = "put"]
                /\ UNCHANGED captured
    /\ qitems' = [qitems EXCEPT ![cqueue[InputOf(NodeOf(w))]] = Tail(@)]
    /\ UNCHANGED <<confVars, chk, partner, cqueue, qmax, flagVars, ret, started, stage, sent,
                   calls, exc>>

\* self.input.get() with nothing queued: Input.get(block=False) raises
\* queue.Empty, which nothing catches
GetRaisesEmpty(w) ==
    /\ stage[w] = "action" /\ apc[w] = "get"
    /\ empty(InputOf(NodeOf(w)))
    /\ exc' = [exc EXCEPT ![w] = "queue.Empty"]
    /\ stage' = [stage EXCEPT ![w] = execute_on_raise("action")]
    /\ UNCHANGED <<confVars, chk, heapVars, flagVars, ret, started, apc, sent, local, calls,
                   captured>>

\* WrappedInline.action: self.output.put(out_data)
InlinePut(w) ==
    /\ stage[w] = "action" /\ apc[w] = "put" /\ Kind(NodeOf(w)) = "Inline"
    /\ ~ full(OutputOf(NodeOf(w)))
    /\ qitems' = [qitems EXCEPT ![cqueue[OutputOf(NodeOf(w))]] = Append(@, local[w])]
    /\ local' = [local EXCEPT ![w] = 0]
    /\ apc' = [apc EXCEPT ![w] = "check"]
    /\ UNCHANGED <<confVars, chk, partner, cqueue, qmax, flagVars, ret, started, stage, sent,
                   calls, exc, captured>>

\* execute: self.teardown()
Teardown(w) ==
    /\ stage[w] = "teardown"
    /\ calls' = [calls EXCEPT ![w] = Append(@, "teardown")]
    /\ stage' = [stage EXCEPT ![w] = execute_next("teardown")]
    /\ UNCHANGED <<confVars, chk, heapVars, flagVars, ret, started, apc, sent, local, exc, captured>>

\* execute: self.finished = True, written to the worker's own node object
SetFinished(w) ==
    /\ stage[w] = "flag"
    /\ mem' = [mem EXCEPT ![w][NodeOf(w)] = TRUE]
    /\ stage' = [stage EXCEPT ![w] = execute_next("flag")]
    /\ UNCHANGED <<confVars, chk, heapVars, egon, ret, started, apc, sent, local, calls, exc,
                   captured>>

AllWorkers == {"src", "inl", "tgt"} \X (1 .. MaxProcs)

WorkerStep(w) ==
    /\ w \in Workers
    /\ \/ Setup(w)
       \/ EnterAction(w)
       \/ SourcePut(w)
       \/ SourceReturn(w)
       \/ LoopTest(w)
       \/ GetItem(w)
       \/ GetRaisesEmpty(w)
       \/ InlinePut(w)
       \/ Teardown(w)
       \/ SetFinished(w)

Next ==
    \/ RunAsync
    \/ \E w \in Workers : Setup(w)
    \/ \E w \in Workers : EnterAction(w)
    \/ \E w \in Workers : SourcePut(w)
    \/ \E w \in Workers : SourceReturn(w)
    \/ \E w \in Workers : LoopTest(w)
    \/ \E w \in Workers : GetItem(w)
    \/ \E w \in Workers : GetRaisesEmpty(w)
    \/ \E w \in Workers : InlinePut(w)
    \/ \E w \in Workers : Teardown(w)
    \/ \E w \in Workers : SetFinished(w)

Spec == Init /\ [][Next]_vars

\* The same pipeline operations on the partly connected graph
UnwiredSpec == UnwiredInit /\ [][Next]_vars

\* Every started worker process is scheduled by the operating system
FairSpec ==
    /\ Spec
    /\ WF_vars(RunAsync)
    /\ \A w \in AllWorkers : WF_vars(WorkerStep(w))

(***************************************************************************)
(* RunSpec: the parent process waiting for, or killing, the workers        *)
(***************************************************************************)
\* A process that has ended: execute returned, raised, or the process was
\* terminated
Exited(w) == stage[w] \in {"done", "crashed", "killed"}

\* A variant of p.join() that does not wait for the process
join_without_waiting(w) == TRUE

\* p.join() returns once process p has exited
join_returns(w) == Exited(w)

\* A variant of p.terminate() that lets the process leave action through
\* teardown
terminate_gracefully(s) == IF s \in {"setup", "action"} THEN "teardown" ELSE s

\* p.terminate(): SIGTERM ends a live process where it is; a process that
\* has exited is left as it is
terminate(s) == IF s \in {"setup", "action", "teardown", "flag"} THEN "killed" ELSE s

\* run_async has returned and the parent has made no other pipeline call yet
ParentIdle ==
    /\ started = Len(Processes)
    /\ ret.op = "none"

\* Pipeline.wait_for_exit is called (by run, after run_async, or by the user);
\* ret.a counts the processes joined so far
WaitForExit ==
    /\ ParentIdle
    /\ ret' = [op |-> "wait_for_exit", a |-> 0, b |-> None, val |-> None]
    /\ UNCHANGED <<confVars, chk, heapVars, flagVars, runVars>>

\* wait_for_exit: p.join() for the next process of the list
Join ==
    /\ ret.op = "wait_for_exit"
    /\ ret.a < Len(Processes)
    /\ join_returns(Processes[ret.a + 1])
    /\ ret' = [ret EXCEPT !.a = @ + 1]
    /\ UNCHANGED <<confVars, chk, heapVars, flagVars, runVars>>

\* Pipeline.kill is called; ret.a counts the processes terminated so far
Kill ==
    /\ ParentIdle
    /\ ret' = [op |-> "kill", a |-> 0, b |-> None, val |-> None]
    /\ UNCHANGED <<confVars, chk, heapVars, flagVars, runVars>>

\* kill: p.terminate() for the next process of the list
Terminate ==
    /\ ret.op = "kill"
    /\ ret.a < Len(Processes)
    /\ stage' = [stage EXCEPT ![Processes[ret.a + 1]] = terminate(@)]
    /\ ret' = [ret EXCEPT !.a = @ + 1]
    /\ UNCHANGED <<confVars, chk, heapVars, flagVars, started, apc, sent, local, calls, exc,
                   captured>>

RunNext ==
    \/ Next
    \/ WaitForExit
    \/ Join
    \/ Kill
    \/ Terminate

\* The three-stage pipeline with unbounded queues and one Source and one
\* Inline process, run and then waited for or killed
RunInit ==
    /\ Init
    /\ graph = "SIT"
    /\ nproc["inl"] = 1
    /\ \A c \in Conns("SIT") : maxsize[c] = 0

RunSpec == RunInit /\ [][RunNext]_vars

(***************************************************************************)
(* Properties                                                              *)
(***************************************************************************)
\* The upstream nodes of n: the owners of the partners of n's input connectors
UpstreamNodes(n) ==
    {OwnerOf(partner[c]) : c \in {d \in input_connections(n) : partner[d] # None}}

\* The finished flag of node n as process p reads it
FinishedFlag(p, n) == IF impl = "simple_pipe" THEN mem[p][n] ELSE node_finished(n)

Replicas(n) == {w \in Workers : NodeOf(w) = n}

Running(w) == stage[w] \in {"setup", "action", "teardown", "flag"}

IsPrefix(s, t) == Len(s) <= Len(t) /\ \A i \in 1 .. Len(s) : s[i] = t[i]

OneReplicaEach == \A n \in DOMAIN nproc : nproc[n] = 1

\* C1: the expecting-more-input check of a node with inputs returns false
\* exactly when every upstream node's finished flag is true and every input
\* queue of the node is empty.
C1_CheckFalseIffUpstreamFinishedAndDrained ==
    ret.op = "check" =>
        ( (ret.val = FALSE) <=>
          ( /\ \A m \in UpstreamNodes(ret.a) : FinishedFlag(Parent, m)
            /\ \A c \in input_connections(ret.a) : empty(c) ) )

\* C2: in Source -> Target with one replica each, in every interleaving the
\* target captures 1, 2, 3 in order, its action does not fail, and it leaves
\* its loop only after the third item.
C2_TargetCapturesEmittedSequence ==
    (graph = "ST" /\ OneReplicaEach) =>
        /\ IsPrefix(captured, Emitted)
        /\ stage[<<"tgt", 1>>] # "crashed"
        /\ stage[<<"tgt", 1>>] \in {"teardown", "flag", "done"} => captured = Emitted

\* C3: in Source -> Inline(doubling) -> Target with one replica each, in every
\* interleaving the target observes 2, 4, 6 in order and end-of-stream reaches
\* the target only after the Inline node has forwarded every item.
C3_TargetObservesDoubledSequence ==
    (graph = "SIT" /\ OneReplicaEach) =>
        /\ IsPrefix(captured, [i \in 1 .. Len(Emitted) |-> Double(Emitted[i])])
        /\ stage[<<"inl", 1>>] # "crashed"
        /\ stage[<<"tgt", 1>>] # "crashed"
        /\ stage[<<"tgt", 1>>] \in {"teardown", "flag", "done"} =>
               captured = [i \in 1 .. Len(Emitted) |-> Double(Emitted[i])]

\* C4: under fair scheduling every worker replica eventually leaves its action
\* loop, completes teardown and sets its finished flag.
C4_EveryReplicaEventuallyFinishes ==
    <>(\A w \in Workers : stage[w] = "done" /\ mem[w][NodeOf(w)])

\* C5: once a replica has completed teardown and execute has set its flag, a
\* running replica of a downstream node reads that node's finished flag as true.
C5_FinishedFlagVisibleDownstream ==
    \A w \in Workers : \A r \in Workers :
        ( /\ stage[w] = "done"
          /\ NodeOf(w) \in UpstreamNodes(NodeOf(r))
          /\ Running(r) )
        => FinishedFlag(r, NodeOf(w))

\* C6: the finished flag of a node, whichever process reads it, equals the
\* conjunction of the flags of all replicas of that node, so it is never true
\* while some replica of the node has not completed execute.
C6_AggregateFlagIsConjunctionOfReplicas ==
    \A p \in DOMAIN mem : \A n \in DOMAIN nproc :
        (p = Parent \/ Running(p) \/ stage[p] = "done") =>
            ( mem[p][n] <=> \A w \in Replicas(n) : stage[w] = "done" )

\* C7: execute calls setup, action and teardown once each, in that order; the
\* replica's flag is false until teardown has returned and true once execute
\* has returned.
C7_ExecuteOrderAndFlag ==
    \A w \in Workers :
        /\ IsPrefix(calls[w], <<"setup", "action", "teardown">>)
        /\ stage[w] = "done" =>
               /\ calls[w] = <<"setup", "action", "teardown">>
               /\ mem[w][NodeOf(w)]
        /\ stage[w] = "flag" => calls[w] = <<"setup", "action", "teardown">>
        /\ stage[w] = "teardown" => calls[w] = <<"setup", "action">>
        /\ stage[w] # "done" => ~ mem[w][NodeOf(w)]

C7_Witness ==
    \E w \in Workers : stage[w] = "done" /\ calls[w] = <<"setup", "action", "teardown">>

\* C8: when action raises, the exception leaves execute, teardown is not
\* called and the replica's flag stays false.
C8_ActionRaiseSkipsTeardown ==
    \A w \in Workers :
        exc[w] # None =>
            /\ stage[w] = "crashed"
            /\ calls[w] = <<"setup", "action">>
            /\ \A p \in DOMAIN mem : ~ mem[p][NodeOf(w)]

C8_Witness ==
    \E w \in Workers : exc[w] = "queue.Empty" /\ stage[w] = "crashed"

\* C9: connect on two connectors of the same direction, subclasses included,
\* fails with the type-mismatch error and does not make them partners.
C9_SameDirectionConnectRejected ==
    (ret.op = "connect" /\ SameDirection(ret.a, ret.b)) =>
        /\ ret.val = "ValueError: same type"
        /\ partner[ret.a] # ret.b
        /\ partner[ret.b] # ret.a

\* C10: a.connect(b) on connectors of opposite directions fails with the
\* already-connected error whenever a or b already has a partner, and leaves
\* every partner as it was.
C10_ConnectNeverOverwrites ==
    [][ ( /\ ret'.op = "connect"
          /\ ~ SameDirection(ret'.a, ret'.b)
          /\ (partner[ret'.a] # None \/ partner[ret'.b] # None) )
        => ( /\ ret'.val \in {"ValueError: pre-established connection",
                              "OverwriteConnectionError"}
             /\ partner' = partner ) ]_vars

\* C11: after a successful connect between an unconnected Input and an
\* unconnected Output each is the other's partner (so is_connected() is true
\* on both) and both hold the same queue; an item put through an Output joins
\* the queue its partner Input holds, and an item an Input takes is the
\* oldest item of the queue its partner Output holds.
C11_ConnectSharesPartnerAndQueue ==
    [][ /\ ( ( /\ ret'.op = "connect" /\ ret'.val = None
               /\ ~ SameDirection(ret'.a, ret'.b)
               /\ partner[ret'.a] = None /\ partner[ret'.b] = None )
             => ( /\ partner'[ret'.a] = ret'.b
                  /\ partner'[ret'.b] = ret'.a
                  /\ partner'[ret'.a] # None /\ partner'[ret'.b] # None
                  /\ cqueue'[ret'.a] = cqueue'[ret'.b] ) )
        /\ ( /\ ret'.op = "put"
             /\ partner[ret'.a] # None
             /\ IsInput(partner[ret'.a])
             /\ partner[partner[ret'.a]] = ret'.a )
           => qitems'[cqueue'[partner[ret'.a]]]
                 = Append(qitems[cqueue[partner[ret'.a]]], ret'.val)
        /\ ( /\ ret'.op = "get"
             /\ qitems' # qitems
             /\ partner[ret'.a] # None
             /\ IsOutput(partner[ret'.a])
             /\ partner[partner[ret'.a]] = ret'.a )
           => ret'.val = Head(qitems[cqueue[partner[ret'.a]]]) ]_vars

C11_Witness ==
    /\ ret.op = "put"
    /\ partner[ret.a] # None
    /\ IsInput(partner[ret.a])
    /\ partner[partner[ret.a]] = ret.a
    /\ cqueue[partner[ret.a]] = cqueue[ret.a]
    /\ qitems[cqueue[partner[ret.a]]] = <<ret.val>>

\* C12: after disconnect is called on either side of a connected pair, the
\* queue each of the two holds is not the queue they shared, the two queues
\* are distinct, and both are empty.
C12_DisconnectGivesFreshEmptyQueues ==
    [][ \A a, b \in DOMAIN partner :
            ( /\ ret'.op = "disconnect" /\ ret'.a = a
              /\ partner[a] = b /\ partner[b] = a )
            => ( /\ \E raw \in {disconnect_from(Heap, a, Referenced(Heap))} :
                        /\ raw.cqueue[a] \notin {cqueue[a], cqueue[b]}
                        /\ raw.cqueue[b] \notin {cqueue[a], cqueue[b]}
                        /\ raw.cqueue[a] # raw.cqueue[b]
                 /\ cqueue'[a] # cqueue'[b]
                 /\ qitems'[cqueue'[a]] = <<>>
                 /\ qitems'[cqueue'[b]] = <<>> ) ]_vars

C12_Witness ==
    /\ ret.op = "disconnect"
    /\ ret.b # None
    /\ cqueue[ret.a] # cqueue[ret.b]
    /\ empty(ret.a) /\ empty(ret.b)

\* C13: disconnect called on a connector that has a partner leaves that
\* connector and the partner it had with no partner (the call returns: the
\* chain of partner disconnects ends).
C13_DisconnectClearsBothSides ==
    (ret.op = "disconnect" /\ ret.b # None) =>
        /\ ret.val = None
        /\ partner[ret.a] = None
        /\ partner[ret.b] = None

C13_Witness ==
    /\ ret.op = "disconnect"
    /\ ret.b # None
    /\ IsInput(ret.a) /\ IsOutput(ret.b)
    /\ partner[ret.a] = None /\ partner[ret.b] = None

RoleMatches(n) ==
    CASE Kind(n) = "Source" -> input_connections(n) = {} /\ output_connections(n) # {}
      [] Kind(n) = "Target" -> output_connections(n) = {} /\ input_connections(n) # {}
      [] Kind(n) = "Inline" -> input_connections(n) # {} \/ output_connections(n) # {}

Unconnected(n) == {c \in DOMAIN partner : OwnerOf(c) = n /\ partner[c] = None}

\* C15: egon validation of a node, or of a pipeline of nodes, whose connector
\* kinds match their roles and of which some declared connector is not
\* connected fails with MissingConnectionError naming an unconnected connector.
C15_UnconnectedConnectorRejected ==
    /\ ( /\ ret.op = "validate" /\ impl = "egon"
         /\ RoleMatches(ret.a) /\ Unconnected(ret.a) # {} )
        => ( /\ ret.val = "MissingConnectionError"
             /\ ret.b \in Unconnected(ret.a) )
    /\ ( /\ ret.op = "Pipeline.validate" /\ impl = "egon"
         /\ \A n \in ret.a : RoleMatches(n)
         /\ \E n \in ret.a : Unconnected(n) # {} )
        => ( /\ ret.val = "MissingConnectionError"
             /\ \E n \in ret.a : ret.b \in Unconnected(n) )

C17_RoleValidation ==
    ret.op = "validate" =>
        /\ (Kind(ret.a) = "Source" /\ input_connections(ret.a) # {})
               => ret.val = "MalformedSourceError"
        /\ (Kind(ret.a) = "Target" /\ output_connections(ret.a) # {})
               => ret.val = "MalformedTargetError"
        /\ ret.val = None => RoleMatches(ret.a)

C18_NoStartBeforeValidation ==
    started > 0 =>
        \A n \in Nodes(graph) :
            /\ node_validate(Heap, n).err = None
            /\ Unconnected(n) = {}

RECURSIVE SumOfProcesses(_, _)
SumOfProcesses(np, S) ==
    IF S = {} THEN 0
    ELSE LET n == CHOOSE x \in S : TRUE IN np[n] + SumOfProcesses(np, S \ {n})

C21_WaitForExitReturnsAfterAllExited ==
    ret.op = "wait_for_exit" =>
        /\ started = Len(Processes)
        /\ \A i \in 1 .. ret.a : Exited(Processes[i])
        /\ ret.a = Len(Processes) => \A w \in Workers : Exited(w)

C21_Witness ==
    /\ ret.op = "wait_for_exit"
    /\ ret.a = Len(Processes)
    /\ stage[<<"src", 1>>] = "done"
    /\ Len(captured) = Len(Emitted)

C23_SingleProducerConsumerFifo ==
    OneReplicaEach =>
        LET put1 == SubSeq(Emitted, 1, sent[<<"src", 1>>])
            q1 == qitems[cqueue["src.output"]]
        IN  IF graph = "ST"
            THEN /\ captured \o q1 = put1
                 /\ IsPrefix(captured, put1)
            ELSE LET hold == IF local[<<"inl", 1>>] # 0
                             THEN <<local[<<"inl", 1>>]>> ELSE << >>
                     put2 == captured \o qitems[cqueue["tgt.input"]]
                     got1 == SubSeq(Emitted, 1, Len(put2) + Len(hold))
                 IN  /\ got1 \o q1 = put1
                     /\ put2 \o hold = [k \in 1 .. Len(got1) |-> Double(got1[k])]
                     /\ IsPrefix(captured, put2)

C23_Witness ==
    /\ OneReplicaEach
    /\ graph = "SIT"
    /\ captured = <<Double(Emitted[1]), Double(Emitted[2]), Double(Emitted[3])>>

\* C24: a get on an input whose queue holds an item, made as a blocking call
\* with a timeout or as the default call, returns the oldest item of the
\* queue and removes it.
C24_GetReturnsOldestItem ==
    [][ ( /\ ret'.op = "get"
          /\ ret'.b = "timeout" \/ impl = "simple_pipe"
          /\ qitems[cqueue[ret'.a]] # << >> )
        => ( /\ ToString(ret'.val) = ToString(Head(qitems[cqueue[ret'.a]]))
             /\ qitems' = [qitems EXCEPT ![cqueue[ret'.a]] = Tail(@)] ) ]_vars

\* C25: a get on an input whose queue is empty raises queue.Empty when it is
\* non-blocking and TimeoutError when it is a blocking call with a timeout
\* (on a node that has not finished), and leaves every queue as it was.
C25_FailedGetReportsAndKeepsQueue ==
    [][ ( /\ ret'.op = "get"
          /\ qitems[cqueue[ret'.a]] = << >>
          /\ ~ (impl = "egon" /\ node_finished(OwnerOf(ret'.a))) )
        => ( /\ ret'.b = "nonblocking" => ret'.val = "queue.Empty"
             /\ ret'.b = "timeout" => ret'.val = "TimeoutError"
             /\ qitems' = qitems ) ]_vars

\* C26: the expecting-more-input check of a node whose upstream nodes are all
\* configured with zero replicas, made while its input queues are empty,
\* returns false.
C26_ZeroReplicaUpstreamIsFinished ==
    ( /\ ret.op = "check"
      /\ \A m \in UpstreamNodes(ret.a) : nproc[m] = 0
      /\ \A c \in input_connections(ret.a) : empty(c) )
    => ret.val = FALSE

C28_PutOnUnconnectedOutputRejected ==
    ret.op = "put" => is_connected(Heap, ret.a)

\* C29: a replica is terminated by an exception exactly when its own
\* lifecycle raised one; once terminated it takes no further step (it is not
\* restarted), and the step in which a replica fails changes the stage,
\* position, calls and exception of no other replica.
C29_FailureTerminatesOnlyThatReplica ==
    /\ [](\A w \in Workers : exc[w] # None <=> stage[w] = "crashed")
    /\ [][\A w \in Workers :
              /\ stage[w] = "crashed" => (stage'[w] = "crashed" /\ calls'[w] = calls[w])
              /\ (stage'[w] = "crashed" /\ stage[w] # "crashed")
                     => \A v \in Workers \ {w} :
                            /\ stage'[v] = stage[v]
                            /\ apc'[v] = apc[v]
                            /\ calls'[v] = calls[v]
                            /\ exc'[v] = exc[v]]_vars

C29_Witness ==
    /\ graph = "ST" /\ OneReplicaEach
    /\ stage[<<"tgt", 1>>] = "crashed"
    /\ captured = << >>
    /\ stage[<<"src", 1>>] = "done"
    /\ calls[<<"src", 1>>] = <<"setup", "action", "teardown">>

\* C30: in every process's memory a node's finished flag never goes from
\* true to false, and it goes from false to true only in the memory of a
\* replica of that node, by that replica's own step, after the replica has
\* called setup, action and teardown.
C30_FinishedFlagWrittenOnceByOwner ==
    [][\A p \in DOMAIN mem : \A n \in Nodes(graph) :
           /\ mem[p][n] => mem'[p][n]
           /\ (mem'[p][n] /\ ~ mem[p][n])
                  => ( /\ p \in Workers
                       /\ NodeOf(p) = n
                       /\ stage[p] = "flag" /\ stage'[p] = "done"
                       /\ calls[p] = <<"setup", "action", "teardown">>
                       /\ \A q \in DOMAIN mem \ {p} : mem'[q] = mem[q] )]_vars

C30_Witness ==
    \E w \in Workers :
        /\ stage[w] = "done"
        /\ mem[w][NodeOf(w)]
        /\ \E v \in Workers : Running(v)

\* The owners of the partners of the connected connectors among cs
OwnersOfPartners(cs) == {OwnerOf(partner[c]) : c \in {d \in cs : partner[d] # None}}

\* C31: the upstream list of a node is the set of owners of the partners of
\* its Inputs and its downstream list the set of owners of the partners of
\* its Outputs; in the chain S -> N -> T the upstream list of N holds S and
\* does not hold N.
C31_NavigationListsPartnersOwners ==
    ret.op = "navigate" =>
        /\ ret.val = OwnersOfPartners(input_connections(ret.a))
        /\ ret.b = OwnersOfPartners(output_connections(ret.a))
        /\ ( /\ ret.a = "N"
             /\ partner["N.input"] = "S.output"
             /\ partner["N.output"] = "T.input" )
           => ("S" \in ret.val /\ "N" \notin ret.val)

\* C32: a blocking egon get without a timeout returns KillSignal only when
\* every upstream node feeding the input has finished and the queue of the
\* input is empty, and in every such state the call does return (KillSignal).
C32_BlockingGetReleasesWhenUpstreamDone ==
    /\ ( /\ impl = "egon"
         /\ ret.op = "get"
         /\ ret.b = "blocking"
         /\ ret.val = "KillSignal" )
       => ( /\ empty(ret.a)
            /\ \A u \in OwnersOfPartners({ret.a}) : node_finished(u) )
    /\ \A i \in {c \in Conns(graph) : IsInput(c)} :
           ( /\ impl = "egon"
             /\ empty(i)
             /\ \A u \in OwnersOfPartners({i}) : node_finished(u) )
           => get_returns(i, "blocking")

\* C33: while the check is being evaluated no read of a finished flag is still
\* to come once a queue has been read, and when the evaluation returns false
\* no input queue of the node holds an item: no item that an unfinished
\* producer put after the queue was sampled empty is left unread.
C33_FlagsReadBeforeQueues ==
    /\ chk.node # None =>
           LET all == check_reads(chk.node)
               done == Len(all) - Len(chk.todo)
           IN  \A j \in 1 .. done, k \in (done + 1) .. Len(all) :
                   ~ (all[j].kind = "queue" /\ all[k].kind = "flag")
    /\ (ret.op = "check" /\ ret.b = "stepwise" /\ ret.val = FALSE /\ chk.node = None)
       => \A c \in input_connections(ret.a) : empty(c)

\* C34: the partner relation is symmetric and one-to-one: a's partner is b
\* exactly when b's partner is a, and no connector is the partner of two
\* different connectors.
C34_PartnerRelationSymmetric ==
    /\ \A a, b \in DOMAIN partner : (partner[a] = b) <=> (partner[b] = a)
    /\ \A a, b \in DOMAIN partner :
           (partner[a] # None /\ partner[a] = partner[b]) => a = b

\* C35: two distinct connectors hold the same queue exactly when they are
\* partners of each other.
C35_QueueSharedIffPartners ==
    \A a, b \in DOMAIN partner :
        a # b => ( (cqueue[a] = cqueue[b]) <=> (partner[a] = b /\ partner[b] = a) )

\* C36: a connect call that raises leaves the partner and the queue of every
\* connector, and the items of every queue, as they were, so a connection
\* that existed before the call still carries its items.
C36_FailedConnectChangesNothing ==
    [][ (ret'.op = "connect" /\ ret'.val # None)
        => UNCHANGED <<partner, cqueue, qitems, qmax>> ]_vars

\* A connect has just failed on an argument that is connected and whose
\* connection holds an item
C36_Witness ==
    /\ ret.op = "connect"
    /\ ret.val # None
    /\ partner[ret.b] # None
    /\ partner[partner[ret.b]] = ret.b
    /\ cqueue[partner[ret.b]] = cqueue[ret.b]
    /\ qitems[cqueue[ret.b]] # << >>

\* C37: after a connect that does not raise, both connectors hold one queue.
\* In egon that queue is empty and has the capacity given to connect, whatever
\* either side held before; in simple_pipe it has the items and the capacity of
\* the queue the caller held before the call.
C37_ConnectQueueContents ==
    [][ (ret'.op = "connect" /\ ret'.val = None)
        => \A a \in {ret'.a}, b \in {ret'.b}, m \in {0, QueueCap} :
               ApiConnect(a, b, m)
               => /\ cqueue'[a] = cqueue'[b]
                  /\ IF impl = "egon"
                     THEN /\ qitems'[cqueue'[a]] = << >>
                          /\ qmax'[cqueue'[a]] = m
                     ELSE /\ qitems'[cqueue'[a]] = qitems[cqueue[a]]
                          /\ qmax'[cqueue'[a]] = qmax[cqueue[a]] ]_vars

\* simple_pipe: a caller that held an item in a bounded queue has connected,
\* and the pair shares that item
C37_Witness ==
    /\ impl = "simple_pipe"
    /\ ret.op = "connect"
    /\ ret.val = None
    /\ cqueue[ret.a] = cqueue[ret.b]
    /\ qitems[cqueue[ret.a]] # << >>
    /\ qmax[cqueue[ret.a]] = QueueCap

\* C38: an egon node is never both running and finished; _run_pool called on
\* a node that is running or has finished raises RuntimeError and changes no
\* flag; a _run_pool that returns leaves the node not running and finished;
\* setting num_processes on a running node, or to a negative value, raises and
\* leaves num_processes as it was.
C38_NodeRunsAtMostOnce ==
    /\ [](\A n \in DOMAIN egon : ~ (egon[n].is_running /\ egon[n].node_finished))
    /\ [][ /\ ( /\ ret'.op = "_run_pool"
                /\ egon[ret'.a].is_running \/ egon[ret'.a].node_finished )
              => (ret'.val = "RuntimeError" /\ egon' = egon)
           /\ (ret'.op = "_run_pool" /\ ret'.val = None)
              => ( /\ ~ egon'[ret'.a].is_running
                   /\ egon'[ret'.a].node_finished )
           /\ ( /\ ret'.op = "num_processes"
                /\ egon[ret'.a].is_running \/ ret'.b < 0 )
              => (ret'.val # None /\ nproc' = nproc) ]_vars

\* A node that has finished was asked to run again and refused
C38_Witness ==
    /\ ret.op = "_run_pool"
    /\ ret.val = "RuntimeError"
    /\ egon[ret.a].node_finished
    /\ ~ egon[ret.a].is_running

\* C39: whenever the expecting-more-input check of a node returns false, every
\* upstream node of that node has run to the end of execute (teardown done,
\* finished flag set).
C39_CheckFalseOnlyAfterUpstreamTeardown ==
    (ret.op = "check" /\ ret.val = FALSE)
    => \A u \in UpstreamNodes(ret.a) : FinishedFlag(Parent, u)

\* C40: when a consuming node runs two or more replicas on one input queue, no
\* replica of it fails in get on an empty queue, and no item reaches the
\* Target function twice.
C40_ReplicasShareQueueSafely ==
    \A n \in Nodes(graph) :
        (Kind(n) # "Source" /\ nproc[n] >= 2) =>
            /\ \A w \in Replicas(n) : ~ (stage[w] = "crashed" /\ exc[w] = "queue.Empty")
            /\ \A j, k \in 1 .. Len(captured) : j # k => captured[j] # captured[k]
====
